---- MODULE Spec2Model ----
(***************************************************************************)
(* Model of src/src/restartmanager.py: the RestartManager (countdown,      *)
(* save, container restart, readiness wait, reschedule), its RCON          *)
(* connection handling with bounded retries, and the __main__ poll loop    *)
(* that runs restart_job and notify_job through the schedule library.      *)
(*                                                                         *)
(* Time is an integer number of seconds since the jobs were scheduled.     *)
(* The clock advances in time.sleep() and while the readiness loop blocks  *)
(* on the log stream; every other call is taken to return within the       *)
(* second in which it was made.                                            *)
(***************************************************************************)
EXTENDS Integers, Sequences, FiniteSets, TLC

\* ----------------------------------------------------------------- constants
RESTART_TIME == 2
NOTIFY_TIME == 20
MAX_RETRIES == 100
RETRY_DELAY == 3

\* timedelta(hours=RESTART_TIME) in seconds
RestartSecs == RESTART_TIME * 3600
\* schedule.every(NOTIFY_TIME).minutes in seconds
NotifySecs == NOTIFY_TIME * 60

\* the readiness sentinel (restart(), last_message)
last_message == "[S_API FAIL] Tried to access Steam interface SteamNetworkingUtils004 before SteamAPI_Init succeeded."

\* ----------------------------------------------------------------- bounds
\* the poll loop stops sleeping once the clock has reached MaxTime
MaxTime == 15000
\* lines the container writes after container.restart() before the model
\* stops producing more
MaxLines == 2
\* lines already in the container's log when container.restart() is called
MaxBacklog == 1
\* longest time, in seconds, the log stream blocks before its next line
MaxWait == 1
\* times in one run the environment makes the program wait: a call of
\* _create_rcon_connection with a failing attempt, a blocking log stream
MaxDelays == 1
\* threads that call RestartManager(), and calls each of them makes
NThreads == 2
MaxCalls == 2

\* ----------------------------------------------------------------- inputs
\* A log line is a sequence of chunks; `last_message in line` is true when
\* one of the chunks is the sentinel.
Lines == { <<"Booting">>, <<last_message>>, <<"[12:00:01] ", last_message, "\n">> }

\* Number of leading connection attempts that fail in one call of
\* _create_rcon_connection (MAX_RETRIES: every attempt fails).
FailRuns == {0, 1, MAX_RETRIES - 1, MAX_RETRIES}

\* What the environment answers during one _broadcast/_command call:
\*   running  container.status == "running"
\*   probeOk  the "info" probe on the existing connection succeeds
\*   fails    leading failing attempts of _create_rcon_connection
\*   kind     the statement that raises in a failing attempt:
\*            "connect" Console(...), "probe" self.rcon.command("info")
\*   cmdOk    the command itself succeeds
Inputs == [running : BOOLEAN, probeOk : BOOLEAN, fails : FailRuns,
           kind : {"connect", "probe"}, cmdOk : BOOLEAN]

VARIABLES
    now,          \* datetime.datetime.now(), whole seconds
    mainpc,       \* __main__ loop: "run_pending", "jobs", "sleep", "dead"
    next_run,     \* schedule: job -> next_run
    pending,      \* jobs run_pending() still has to run, head first
    job,          \* the job being run: "none", "restart", "notify"
    pc,           \* position inside the job; "idle" when no job runs
    instance,     \* RestartManager._instance is not None
    initialized,  \* hasattr(self, 'initialized')
    rcon,         \* self.rcon: "None" or "Console"
    next_start,   \* self.next_start
    hours, minutes, seconds,   \* self.hours, self.minutes, self.seconds
    count,        \* _init_countdown: count
    backlog,      \* lines the log held when container.restart() was called
    consumed,     \* lines the readiness loop has read, in order
    closed,       \* the log stream ended (the for loop ran out of lines)
    error,        \* the exception that left the job, "none" if none
    bcasts,       \* messages _broadcast was called with in this job
    phases,       \* phases of restart() finished in this job, in order
    discord,      \* messages handed to log_to_discord in this job
    call,         \* what the latest _broadcast/_command call did
    finished,     \* the job that returned last, and when
    failed,       \* a _broadcast/_command call of this job returned nothing
    delays,       \* times the environment has made the program wait
    bcast_at,     \* time at which the latest _broadcast call ended
    cls_instance, \* RestartManager._instance: 0 for None, else the object
    created,      \* objects super().__new__(cls) has made
    has_initialized, \* objects that have the attribute 'initialized'
    init_runs,    \* times the body of __init__ has run
    tpc,          \* thread -> position in its RestartManager() call
    tself,        \* thread -> the object its __new__ returned
    tcalls,       \* thread -> RestartManager() calls it has finished
    returned      \* objects RestartManager() calls have returned

\* the state of the singleton under threads
threads == <<cls_instance, created, has_initialized, init_runs, tpc, tself,
             tcalls, returned>>

\* the state of the scheduled program
program == <<now, mainpc, next_run, pending, job, pc, instance, initialized,
             rcon, next_start, hours, minutes, seconds, count, backlog,
             consumed, closed, error, bcasts, phases, discord, call, finished,
             failed, delays, bcast_at>>

vars == <<program, threads>>

Threads == 1..NThreads

\* ----------------------------------------------------------------- RCON
\* Bookkeeping of one _broadcast/_command call: the environment's answers
\* (running, fails), the connection before and after, the Console(...) attempts, retry sleeps and "info" probes made, the
\* log.error lines of the connection layer (errors) and of the command's
\* except clause (cmd_errors), the retries left, how far
\* _create_rcon_connection got (connect: "none" not called, "loop" in its
\* while loop, "connected" returned after a success, "raise" re-raised the
\* exception, "exit" left the loop by its condition) and how the call ended
\* (result: "ok", "failed" with nothing returned, "raise"); probe is the
\* answer of _is_rcon_connected on the existing connection ("none": not asked).
NoCall ==
    [op |-> "none", arg |-> "", running |-> FALSE, fails |-> 0,
     before |-> "None",
     rcon |-> "None", retries |-> 0, attempts |-> 0, sleeps |-> 0,
     probes |-> 0, errors |-> 0, cmd_errors |-> 0, connect |-> "none",
     probe |-> "none", result |-> "none"]

\* The loop body with `if retries >= 0:` in place of `if retries > 0:`: it
\* sleeps after the last failed attempt too and never re-raises.
ConnAttemptSleepsLast(acc, in) ==
    LET n      == acc.attempts + 1
        fail   == n <= in.fails
        made   == ~(fail /\ in.kind = "connect")
        a1     == [acc EXCEPT !.attempts = n,
                              !.rcon = IF made THEN "Console" ELSE @,
                              !.probes = IF made THEN @ + 1 ELSE @]
    IN  IF ~fail
        THEN [a1 EXCEPT !.connect = "connected"]
        ELSE IF acc.retries - 1 >= 0
             THEN [a1 EXCEPT !.errors = @ + 1, !.retries = @ - 1,
                             !.sleeps = @ + 1]
             ELSE [a1 EXCEPT !.errors = @ + 2, !.retries = @ - 1,
                             !.connect = "raise"]

\* The body of the while loop of _create_rcon_connection, run once.
\* The attempt fails when it is one of the first in.fails attempts.
ConnAttempt(acc, in) ==
    LET n      == acc.attempts + 1
        fail   == n <= in.fails
        made   == ~(fail /\ in.kind = "connect")
        a1     == [acc EXCEPT !.attempts = n,
                              !.rcon = IF made THEN "Console" ELSE @,
                              !.probes = IF made THEN @ + 1 ELSE @]
    IN  IF ~fail
        THEN [a1 EXCEPT !.connect = "connected"]
        ELSE IF acc.retries - 1 > 0
             THEN [a1 EXCEPT !.errors = @ + 1, !.retries = @ - 1,
                             !.sleeps = @ + 1]
             ELSE [a1 EXCEPT !.errors = @ + 2, !.retries = @ - 1,
                             !.connect = "raise"]

\* `while retries > 0:` and its body
ConnIter(acc, in) ==
    IF acc.retries > 0 THEN ConnAttempt(acc, in)
    ELSE [acc EXCEPT !.connect = "exit"]

\* k iterations of the loop, or as many as it runs (the iterations are
\* split in halves to keep the evaluation shallow)
RECURSIVE ConnLoop(_, _, _)
ConnLoop(k, acc, in) ==
    IF acc.connect # "loop" THEN acc
    ELSE IF k <= 1 THEN ConnIter(acc, in)
    ELSE ConnLoop(k - k \div 2, ConnLoop(k \div 2, acc, in), in)

\* the loop ends within MAX_RETRIES iterations; two more are run so that a
\* loop that goes on longer shows
_create_rcon_connection(acc, in) ==
    ConnLoop(MAX_RETRIES + 2,
             [acc EXCEPT !.retries = MAX_RETRIES, !.connect = "loop"], in)

\* _is_rcon_connected: one "info" probe on the existing connection.
_is_rcon_connected(in) == in.probeOk

\* _establish_rcon_connection without the `return` after the error: a
\* container that is not running is logged and the connection checked anyway.
EstablishWithoutReturn(acc, in) ==
    LET e == IF ~in.running THEN [acc EXCEPT !.errors = @ + 1] ELSE acc
    IN  IF e.rcon = "None"
        THEN _create_rcon_connection(e, in)
        ELSE LET p == [e EXCEPT !.probes = @ + 1,
                                !.probe = IF _is_rcon_connected(in)
                                          THEN "ok" ELSE "failed"]
             IN  IF ~_is_rcon_connected(in)
                 THEN _create_rcon_connection(p, in)
                 ELSE p

\* _establish_rcon_connection with `if True:` for its second test: a new
\* connection is made on every call, whatever the probe would say.
EstablishAlwaysCreates(acc, in) ==
    IF ~in.running
    THEN [acc EXCEPT !.errors = @ + 1]
    ELSE IF acc.rcon = "None"
         THEN _create_rcon_connection(acc, in)
         ELSE _create_rcon_connection(
                  [acc EXCEPT !.probes = @ + 1,
                              !.probe = IF _is_rcon_connected(in)
                                        THEN "ok" ELSE "failed"], in)

\* the container must run; `self.rcon is None or not self._is_rcon_connected()`
\* asks the probe only of an existing connection
_establish_rcon_connection(acc, in) ==
    IF ~in.running
    THEN [acc EXCEPT !.errors = @ + 1]
    ELSE IF acc.rcon = "None"
         THEN _create_rcon_connection(acc, in)
         ELSE LET p == [acc EXCEPT !.probes = @ + 1,
                                   !.probe = IF _is_rcon_connected(in)
                                             THEN "ok" ELSE "failed"]
              IN  IF ~_is_rcon_connected(in)
                  THEN _create_rcon_connection(p, in)
                  ELSE p

\* The command without its except clause: the exception leaves the call.
RconCommandUncaught(acc, in) ==
    IF acc.connect = "raise"
    THEN [acc EXCEPT !.result = "raise"]
    ELSE IF acc.rcon # "None" /\ in.cmdOk
         THEN [acc EXCEPT !.result = "ok"]
         ELSE [acc EXCEPT !.result = "raise"]

\* An except clause that names the transport's error only: the AttributeError
\* of None.command(...) leaves the call.
RconCommandNoneEscapes(acc, in) ==
    IF acc.connect = "raise" \/ acc.rcon = "None"
    THEN [acc EXCEPT !.result = "raise"]
    ELSE IF in.cmdOk
         THEN [acc EXCEPT !.result = "ok"]
         ELSE [acc EXCEPT !.cmd_errors = @ + 1, !.result = "failed"]

\* The try/except around self.rcon.command(...) of _broadcast and _command:
\* any exception (AttributeError on None included) is logged and swallowed.
RconCommand(acc, in) ==
    IF acc.connect = "raise"
    THEN [acc EXCEPT !.result = "raise"]
    ELSE IF acc.rcon # "None" /\ in.cmdOk
         THEN [acc EXCEPT !.result = "ok"]
         ELSE [acc EXCEPT !.cmd_errors = @ + 1, !.result = "failed"]

RconCall(op, arg, cur, in) ==
    RconCommand(
        _establish_rcon_connection(
            [NoCall EXCEPT !.op = op, !.arg = arg, !.running = in.running,
                           !.fails = in.fails, !.before = cur,
                           !.rcon = cur], in), in)

_broadcast(message, cur, in) == RconCall("broadcast", message, cur, in)

_command(command, cur, in) == RconCall("command", command, cur, in)

\* time spent in the retry sleeps of a call
Slept(c) == RETRY_DELAY * c.sleeps

\* an attempt of the call failed
Outage(c) == c.errors > 0 /\ c.attempts > 0

\* the answers the environment may still give
InputsNow == IF delays < MaxDelays THEN Inputs
             ELSE {in \in Inputs : in.fails = 0}

WaitsNow == IF delays < MaxDelays THEN 0..MaxWait ELSE {0}

\* ----------------------------------------------------------------- timing
\* the remainder taken as now - next_start
CalcHoursReversed(ns, t) == (t - ns) \div 3600

\* _calculate_restart_time: divmod of the whole seconds remaining
CalcHours(ns, t) == (ns - t) \div 3600
CalcMinutes(ns, t) == ((ns - t) % 3600) \div 60
CalcSeconds(ns, t) == ((ns - t) % 3600) % 60

\* timedelta(minutes=RESTART_TIME) in place of hours
NewRestartTimeMinutes(t) == t + RESTART_TIME * 60

\* the interval left out: next_start = datetime.datetime.now()
NewRestartTimeNow(t) == t

\* _set_new_restart_time
NewRestartTime(t) == t + RestartSecs

\* the countdown without its else branch: count 0 is formatted like the rest
CountdownMessageNoNow(c) == "server_restarting_in_" \o ToString(c) \o "_secs"

\* f"server_restarting_in_{count}_secs" / "server_restarting_NOW!"
CountdownMessage(c) ==
    IF c > 0 THEN "server_restarting_in_" \o ToString(c) \o "_secs"
             ELSE "server_restarting_NOW!"

\* `last_message == line` in place of `in`
IsReadyWholeLine(line) == line = <<last_message>>

\* `last_message in line`
IsReady(line) == \E i \in 1..Len(line) : line[i] = last_message

\* ----------------------------------------------------------------- schedule
Period(j) == IF j = "restart" THEN RestartSecs ELSE NotifySecs

\* run_pending: the jobs whose next_run has come, sorted by next_run
\* (the jobs list is <<restart_job, notify_job>>, the sort is stable)
Runnable(t) ==
    LET r == t >= next_run["restart"]
        n == t >= next_run["notify"]
    IN  IF r /\ n
        THEN IF next_run["notify"] < next_run["restart"]
             THEN <<"notify", "restart">> ELSE <<"restart", "notify">>
        ELSE IF r THEN <<"restart">>
        ELSE IF n THEN <<"notify">>
        ELSE <<>>

Min(a, b) == IF a < b THEN a ELSE b

\* the clock after time.sleep(1) of the poll loop; polls at which nothing is
\* due only sleep again, and are taken together
AfterPollSleep(t) ==
    LET due == Min(next_run["restart"], next_run["notify"])
    IN  IF due > t + 1 THEN due ELSE t + 1

\* groups of variables, for UNCHANGED
timing == <<next_start, hours, minutes, seconds>>
stream == <<backlog, consumed, closed>>
singleton == <<instance, initialized>>
jobctl == <<mainpc, next_run, pending, job, error, finished>>

Init ==
    /\ now = 0
    /\ mainpc = "run_pending"
    /\ next_run = [j \in {"restart", "notify"} |-> Period(j)]
    /\ pending = <<>>
    /\ job = "none"
    /\ pc = "idle"
    /\ instance = FALSE
    /\ initialized = FALSE
    /\ rcon = "None"
    /\ next_start = 0
    /\ hours = 0
    /\ minutes = 0
    /\ seconds = 0
    /\ count = 0
    /\ backlog = <<>>
    /\ consumed = <<>>
    /\ closed = FALSE
    /\ error = "none"
    /\ bcasts = <<>>
    /\ phases = <<>>
    /\ discord = <<>>
    /\ call = NoCall
    /\ finished = [job |-> "none", at |-> 0]
    /\ failed = FALSE
    /\ delays = 0
    /\ bcast_at = 0
    /\ cls_instance = 0
    /\ created = 0
    /\ has_initialized = {}
    /\ init_runs = 0
    /\ tpc = [t \in Threads |-> "idle"]
    /\ tself = [t \in Threads |-> 0]
    /\ tcalls = [t \in Threads |-> 0]
    /\ returned = {}

\* the job returns normally at time t: Job.run sets next_run = now + period
Return(t) ==
    /\ finished' = [job |-> job, at |-> t]
    /\ next_run' = [next_run EXCEPT ![job] = t + Period(job)]
    /\ pending' = Tail(pending)
    /\ job' = "none"
    /\ pc' = "idle"
    /\ UNCHANGED <<mainpc, error>>

\* an exception leaves the job: nothing in restart_job, notify_job,
\* run_pending or the while loop catches it
Raise(e) ==
    /\ error' = e
    /\ mainpc' = "dead"
    /\ UNCHANGED <<pc, next_run, pending, job, finished>>

\* the job goes on to position p
Goto(p) ==
    /\ pc' = p
    /\ UNCHANGED jobctl

\* schedule.run_pending(), first half: collect the runnable jobs
RunPending ==
    /\ mainpc = "run_pending"
    /\ UNCHANGED threads
    /\ pending' = Runnable(now)
    /\ mainpc' = "jobs"
    /\ call' = NoCall
    /\ UNCHANGED <<now, next_run, job, pc, error, finished, singleton, rcon,
                   timing, count, stream, bcasts, phases, discord, failed,
                   delays,
                   bcast_at>>

\* restart_job / notify_job: manager = RestartManager()
\* __new__ creates the instance once, __init__ sets it up once
StartJob ==
    /\ mainpc = "jobs"
    /\ UNCHANGED threads
    /\ pending # <<>>
    /\ job = "none"
    /\ job' = Head(pending)
    /\ pc' = IF Head(pending) = "restart" THEN "countdown" ELSE "notify"
    /\ count' = IF Head(pending) = "restart" THEN 5 ELSE count
    /\ instance' = TRUE
    /\ rcon' = IF instance THEN rcon ELSE "None"
    /\ initialized' = TRUE
    /\ next_start' = IF initialized THEN next_start ELSE NewRestartTime(now)
    /\ hours' = IF initialized THEN hours
                ELSE CalcHours(NewRestartTime(now), now)
    /\ minutes' = IF initialized THEN minutes
                  ELSE CalcMinutes(NewRestartTime(now), now)
    /\ seconds' = IF initialized THEN seconds
                  ELSE CalcSeconds(NewRestartTime(now), now)
    /\ backlog' = <<>>
    /\ consumed' = <<>>
    /\ closed' = FALSE
    /\ bcasts' = <<>>
    /\ phases' = <<>>
    /\ discord' = <<>>
    /\ call' = NoCall
    /\ finished' = [job |-> "none", at |-> 0]
    /\ failed' = FALSE
    /\ bcast_at' = 0
    /\ UNCHANGED <<now, mainpc, next_run, pending, error, delays>>

\* the effects every _broadcast/_command call c has on the state
Called(c) ==
    /\ call' = c
    /\ rcon' = c.rcon
    /\ failed' = (failed \/ c.result = "failed")
    /\ delays' = IF Outage(c) THEN delays + 1 ELSE delays

\* _init_countdown: one iteration of the while loop
CountdownStep ==
    /\ mainpc = "jobs"
    /\ UNCHANGED threads
    /\ pc = "countdown"
    /\ count >= 0
    /\ \E in \in InputsNow :
         LET c == _broadcast(CountdownMessage(count), rcon, in)
         IN  /\ Called(c)
             /\ bcasts' = Append(bcasts, CountdownMessage(count))
             /\ bcast_at' = now + Slept(c)
             /\ IF c.result = "raise"
                THEN /\ Raise("ConnectionExhausted")
                     /\ now' = now + Slept(c)
                     /\ count' = count
                ELSE /\ Goto("countdown")
                     /\ count' = count - 1
                     /\ now' = now + Slept(c) + 1
    /\ UNCHANGED <<singleton, timing, stream, phases, discord>>

\* restart() without its self._command("save") line
CountdownEndSkipsSave ==
    /\ mainpc = "jobs"
    /\ UNCHANGED threads
    /\ pc = "countdown"
    /\ count < 0
    /\ now' = now + 2
    /\ Goto("notify_pre")
    /\ phases' = Append(phases, "countdown")
    /\ call' = NoCall
    /\ UNCHANGED <<singleton, rcon, timing, count, stream, bcasts, discord,
                   failed, delays,
                   bcast_at>>

\* _init_countdown without its last line, time.sleep(2)
CountdownEndNoGrace ==
    /\ mainpc = "jobs"
    /\ UNCHANGED threads
    /\ pc = "countdown"
    /\ count < 0
    /\ now' = now
    /\ Goto("save")
    /\ phases' = Append(phases, "countdown")
    /\ call' = NoCall
    /\ UNCHANGED <<singleton, rcon, timing, count, stream, bcasts, discord,
                   failed, delays, bcast_at>>

\* _init_countdown: the loop is over, time.sleep(2)
CountdownEnd ==
    /\ mainpc = "jobs"
    /\ UNCHANGED threads
    /\ pc = "countdown"
    /\ count < 0
    /\ now' = now + 2
    /\ Goto("save")
    /\ phases' = Append(phases, "countdown")
    /\ call' = NoCall
    /\ UNCHANGED <<singleton, rcon, timing, count, stream, bcasts, discord,
                   failed, delays,
                   bcast_at>>

\* restart(): self._command("save")
Save ==
    /\ mainpc = "jobs"
    /\ UNCHANGED threads
    /\ pc = "save"
    /\ \E in \in InputsNow :
         LET c == _command("save", rcon, in)
         IN  /\ Called(c)
             /\ now' = now + Slept(c)
             /\ IF c.result = "raise"
                THEN /\ Raise("ConnectionExhausted")
                     /\ phases' = phases
                ELSE /\ Goto("notify_pre")
                     /\ phases' = Append(phases, "save")
    /\ UNCHANGED <<singleton, timing, count, stream, bcasts, discord,
                   bcast_at>>

\* log_to_discord: webhook.execute() returns (ok) or raises
log_to_discord(log_message, ok) ==
    IF ok THEN Append(discord, log_message) ELSE discord

\* restart(): log_to_discord("Server restarting...")
NotifyPre ==
    /\ mainpc = "jobs"
    /\ UNCHANGED threads
    /\ pc = "notify_pre"
    /\ \E ok \in BOOLEAN :
         /\ discord' = log_to_discord("Server restarting...", ok)
         /\ IF ok
            THEN /\ Goto("container_restart")
                 /\ phases' = Append(phases, "notify_pre")
            ELSE /\ Raise("WebhookError")
                 /\ phases' = phases
    /\ call' = NoCall
    /\ UNCHANGED <<now, singleton, rcon, timing, count, stream, bcasts,
                   failed, delays,
                   bcast_at>>

\* sequences of log lines of length at most n
LinesUpTo(n) == UNION { [1..k -> Lines] : k \in 0..n }

\* restart(): self.container.restart(), then self.container.logs(stream=True):
\* the stream starts with what the container's log already holds
ContainerRestart ==
    /\ mainpc = "jobs"
    /\ UNCHANGED threads
    /\ pc = "container_restart"
    /\ backlog' \in LinesUpTo(MaxBacklog)
    /\ consumed' = <<>>
    /\ closed' = FALSE
    /\ Goto("readiness")
    /\ phases' = Append(phases, "container_restart")
    /\ call' = NoCall
    /\ UNCHANGED <<now, singleton, rcon, timing, count, bcasts, discord,
                   failed, delays,
                   bcast_at>>

\* the readiness loop has taken the line: log.info, then the sentinel test
Consume(line) ==
    /\ consumed' = Append(consumed, line)
    /\ Goto(IF IsReady(line) THEN "reschedule" ELSE "readiness")
    /\ phases' = IF IsReady(line) THEN Append(phases, "readiness") ELSE phases

\* the log stream blocks for d seconds
Blocked(d) ==
    /\ now' = now + d
    /\ delays' = IF d > 0 THEN delays + 1 ELSE delays

\* restart(): one iteration of `for line in self.container.logs(stream=True)`
ReadLine ==
    /\ mainpc = "jobs"
    /\ UNCHANGED threads
    /\ pc = "readiness"
    /\ ~closed
    /\ IF Len(consumed) < Len(backlog)
       THEN /\ Consume(backlog[Len(consumed) + 1])
            /\ Blocked(0)
       ELSE /\ Len(consumed) - Len(backlog) < MaxLines
            /\ \E line \in Lines, d \in WaitsNow :
                 /\ Consume(line)
                 /\ Blocked(d)
    /\ call' = NoCall
    /\ UNCHANGED <<singleton, rcon, timing, count, backlog, closed, bcasts,
                   discord, failed,
                   bcast_at>>

\* a for loop that treats the end of the stream as an error and raises
StreamClosedRaises ==
    /\ mainpc = "jobs"
    /\ UNCHANGED threads
    /\ pc = "readiness"
    /\ ~closed
    /\ Len(consumed) >= Len(backlog)
    /\ closed' = TRUE
    /\ Raise("StreamClosed")
    /\ phases' = phases
    /\ \E d \in WaitsNow : Blocked(d)
    /\ call' = NoCall
    /\ UNCHANGED <<singleton, rcon, timing, count, backlog, consumed, bcasts,
                   discord, failed,
                   bcast_at>>

\* restart(): the log stream ends, the for loop falls through
StreamClosed ==
    /\ mainpc = "jobs"
    /\ UNCHANGED threads
    /\ pc = "readiness"
    /\ ~closed
    /\ Len(consumed) >= Len(backlog)
    /\ closed' = TRUE
    /\ Goto("reschedule")
    /\ phases' = Append(phases, "readiness")
    /\ \E d \in WaitsNow : Blocked(d)
    /\ call' = NoCall
    /\ UNCHANGED <<singleton, rcon, timing, count, backlog, consumed, bcasts,
                   discord, failed,
                   bcast_at>>

\* restart(): _set_new_restart_time(), _calculate_restart_time()
Reschedule ==
    /\ mainpc = "jobs"
    /\ UNCHANGED threads
    /\ pc = "reschedule"
    /\ next_start' = NewRestartTime(now)
    /\ hours' = CalcHours(NewRestartTime(now), now)
    /\ minutes' = CalcMinutes(NewRestartTime(now), now)
    /\ seconds' = CalcSeconds(NewRestartTime(now), now)
    /\ Goto("notify_post")
    /\ phases' = Append(phases, "reschedule")
    /\ call' = NoCall
    /\ UNCHANGED <<now, singleton, rcon, count, stream, bcasts, discord,
                   failed, delays,
                   bcast_at>>

\* restart(): log_to_discord("Server restarted!"), log.info, return
NotifyPost ==
    /\ mainpc = "jobs"
    /\ UNCHANGED threads
    /\ pc = "notify_post"
    /\ \E ok \in BOOLEAN :
         /\ discord' = log_to_discord("Server restarted!", ok)
         /\ IF ok
            THEN /\ Return(now)
                 /\ phases' = Append(phases, "notify_post")
            ELSE /\ Raise("WebhookError")
                 /\ phases' = phases
    /\ call' = NoCall
    /\ UNCHANGED <<now, singleton, rcon, timing, count, stream, bcasts,
                   failed, delays,
                   bcast_at>>

\* proper_hrs without the singular
ProperHrsPlural(h) == "hrs"

\* "hr" if self.hours == 1 else "hrs" / "min" if self.minutes == 1 else "mins"
ProperHrs(h) == IF h = 1 THEN "hr" ELSE "hrs"
ProperMins(m) == IF m = 1 THEN "min" ELSE "mins"

\* f"server_restart_in_{self.hours}{proper_hrs}_{self.minutes}{proper_mins}"
NotifyMessage(h, m) ==
    "server_restart_in_" \o ToString(h) \o ProperHrs(h) \o "_"
        \o ToString(m) \o ProperMins(m)

\* notify_restart(), the whole handler, and the return of notify_job
NotifyRestart ==
    /\ mainpc = "jobs"
    /\ UNCHANGED threads
    /\ pc = "notify"
    /\ hours' = CalcHours(next_start, now)
    /\ minutes' = CalcMinutes(next_start, now)
    /\ seconds' = CalcSeconds(next_start, now)
    /\ \E in \in InputsNow :
         LET c == _broadcast(NotifyMessage(hours', minutes'), rcon, in)
         IN  /\ Called(c)
             /\ bcasts' = Append(bcasts, NotifyMessage(hours', minutes'))
             /\ bcast_at' = now + Slept(c)
             /\ now' = now + Slept(c)
             /\ IF c.result = "raise"
                THEN Raise("ConnectionExhausted")
                ELSE Return(now + Slept(c))
    /\ UNCHANGED <<singleton, next_start, count, stream, phases, discord>>

\* schedule.run_pending() returns: every runnable job has run
EndRunPending ==
    /\ mainpc = "jobs"
    /\ UNCHANGED threads
    /\ pending = <<>>
    /\ job = "none"
    /\ mainpc' = "sleep"
    /\ call' = NoCall
    /\ UNCHANGED <<now, next_run, pending, job, pc, error, finished,
                   singleton, rcon, timing, count, stream, bcasts, phases,
                   discord, failed, delays,
                   bcast_at>>

\* __main__: time.sleep(1), back to run_pending()
Sleep ==
    /\ mainpc = "sleep"
    /\ UNCHANGED threads
    /\ AfterPollSleep(now) <= MaxTime
    /\ now' = AfterPollSleep(now)
    /\ mainpc' = "run_pending"
    /\ UNCHANGED <<next_run, pending, job, pc, error, finished, singleton,
                   rcon, timing, count, stream, bcasts, phases, discord, call,
                   failed, delays,
                   bcast_at>>

Next ==
    \/ RunPending
    \/ StartJob
    \/ CountdownStep
    \/ CountdownEnd
    \/ Save
    \/ NotifyPre
    \/ ContainerRestart
    \/ ReadLine
    \/ StreamClosed
    \/ Reschedule
    \/ NotifyPost
    \/ NotifyRestart
    \/ EndRunPending
    \/ Sleep

Spec == Init /\ [][Next]_vars

TypeOK ==
    /\ now \in Nat
    /\ mainpc \in {"run_pending", "jobs", "sleep", "dead"}
    /\ job \in {"none", "restart", "notify"}
    /\ rcon \in {"None", "Console"}
    /\ count \in -1..5
    /\ delays \in 0..MaxDelays

\* The program is one thread that takes its next step whenever it has one;
\* the log stream hands over a line or closes (at most MaxLines new lines).
SpecFair == Spec /\ WF_vars(Next)

\* ---------------------------------------------- RestartManager() in threads
\* The class takes no lock: a thread can be switched out between any two
\* statements of __new__ and __init__.  Each action below is one statement.

TGoto(t, p) == tpc' = [tpc EXCEPT ![t] = p]

\* the call returns the object __new__ gave it
TReturn(t) ==
    /\ TGoto(t, "idle")
    /\ tcalls' = [tcalls EXCEPT ![t] = @ + 1]
    /\ returned' = returned \cup {tself[t]}

\* a thread calls RestartManager()
TCall(t) ==
    /\ tpc[t] = "idle"
    /\ tcalls[t] < MaxCalls
    /\ TGoto(t, "new_check")
    /\ UNCHANGED <<program, cls_instance, created, has_initialized, init_runs,
                   tself, tcalls, returned>>

\* __new__: if cls._instance is None
TNewCheck(t) ==
    /\ tpc[t] = "new_check"
    /\ TGoto(t, IF cls_instance = 0 THEN "new_create" ELSE "new_return")
    /\ UNCHANGED <<program, cls_instance, created, has_initialized, init_runs,
                   tself, tcalls, returned>>

\* __new__: cls._instance = super().__new__(cls)
TNewCreate(t) ==
    /\ tpc[t] = "new_create"
    /\ created' = created + 1
    /\ cls_instance' = created + 1
    /\ TGoto(t, "new_rcon")
    /\ UNCHANGED <<program, has_initialized, init_runs, tself, tcalls,
                   returned>>

\* __new__: cls._instance.rcon = None
TNewRcon(t) ==
    /\ tpc[t] = "new_rcon"
    /\ TGoto(t, "new_return")
    /\ UNCHANGED <<program, cls_instance, created, has_initialized, init_runs,
                   tself, tcalls, returned>>

\* __new__: return cls._instance; type.__call__ then runs __init__ on it
TNewReturn(t) ==
    /\ tpc[t] = "new_return"
    /\ tself' = [tself EXCEPT ![t] = cls_instance]
    /\ TGoto(t, "init_check")
    /\ UNCHANGED <<program, cls_instance, created, has_initialized, init_runs,
                   tcalls, returned>>

\* __init__: if not hasattr(self, 'initialized'), else fall off the end
TInitCheck(t) ==
    /\ tpc[t] = "init_check"
    /\ IF tself[t] \in has_initialized
       THEN /\ TReturn(t)
            /\ UNCHANGED <<program, cls_instance, created, has_initialized,
                           init_runs, tself>>
       ELSE /\ TGoto(t, "init_body")
            /\ UNCHANGED <<program, cls_instance, created, has_initialized,
                           init_runs, tself, tcalls, returned>>

\* __init__: the docker client, the container, the restart time
TInitBody(t) ==
    /\ tpc[t] = "init_body"
    /\ init_runs' = init_runs + 1
    /\ TGoto(t, "init_mark")
    /\ UNCHANGED <<program, cls_instance, created, has_initialized, tself,
                   tcalls, returned>>

\* __init__: self.initialized = True
TInitMark(t) ==
    /\ tpc[t] = "init_mark"
    /\ has_initialized' = has_initialized \cup {tself[t]}
    /\ TReturn(t)
    /\ UNCHANGED <<program, cls_instance, created, init_runs, tself>>

NextThreads ==
    \/ \E t \in Threads : TCall(t)
    \/ \E t \in Threads : TNewCheck(t)
    \/ \E t \in Threads : TNewCreate(t)
    \/ \E t \in Threads : TNewRcon(t)
    \/ \E t \in Threads : TNewReturn(t)
    \/ \E t \in Threads : TInitCheck(t)
    \/ \E t \in Threads : TInitBody(t)
    \/ \E t \in Threads : TInitMark(t)

SpecThreads == Init /\ [][NextThreads]_vars

TypeOKThreads ==
    /\ cls_instance \in 0..created
    /\ created \in 0..NThreads
    /\ init_runs \in 0..(NThreads * MaxCalls)
    /\ has_initialized \subseteq 1..created
    /\ returned \subseteq 1..created
    /\ \A t \in Threads : tcalls[t] \in 0..MaxCalls /\ tself[t] \in 0..created

\* ================================================================= claims

\* a restart job is running, has raised, or is the job that returned last
InRestart == job = "restart" \/ finished.job = "restart"

IsPrefix(a, b) == Len(a) <= Len(b) /\ SubSeq(b, 1, Len(a)) = a

\* the countdown broadcasts in the order the specification gives
CountdownOrder ==
    <<"server_restarting_in_5_secs", "server_restarting_in_4_secs",
      "server_restarting_in_3_secs", "server_restarting_in_2_secs",
      "server_restarting_in_1_secs", "server_restarting_NOW!">>

\* C1 as stated: every restart() issues all six countdown broadcasts in order,
\* whichever broadcasts fail: once the countdown loop has been left, by
\* finishing or by an exception, the broadcasts issued are the whole sequence.
C1_EveryRestartCountsDown ==
    (job = "restart" /\ (pc # "countdown" \/ mainpc = "dead"))
        => bcasts = CountdownOrder

\* C1 amended: the broadcasts a restart() has issued are always a prefix of
\* 5, 4, 3, 2, 1, NOW (nothing skipped, repeated or reordered), one per count
\* passed, and the whole sequence once the countdown phase is over; a
\* countdown that ends early was ended by the connection-exhaustion error.
C1_CountdownOrder ==
    InRestart =>
        /\ IsPrefix(bcasts, CountdownOrder)
        /\ (pc = "countdown" /\ mainpc # "dead") => Len(bcasts) = 5 - count
        /\ pc # "countdown" => bcasts = CountdownOrder
        /\ (pc = "countdown" /\ mainpc = "dead")
               => (error = "ConnectionExhausted" /\ Len(bcasts) = 6 - count)

\* C1 witness: the countdown loop has issued all six broadcasts although a
\* broadcast failed, the last one included.
C1_Witness ==
    /\ job = "restart" /\ pc = "countdown" /\ count = -1
    /\ failed /\ call.result = "failed"
    /\ bcasts = CountdownOrder

\* C2: a call of _create_rcon_connection in which every attempt fails makes
\* exactly MAX_RETRIES attempts and MAX_RETRIES - 1 sleeps and raises to the
\* caller; one in which an attempt succeeds stops at that attempt, having
\* slept once per failed attempt before it.
C2_RetryBudget ==
    call.connect # "none" =>
        /\ call.connect \in {"connected", "raise"}
        /\ call.fails >= MAX_RETRIES
               => /\ call.connect = "raise"
                  /\ call.attempts = MAX_RETRIES
                  /\ call.sleeps = MAX_RETRIES - 1
                  /\ call.result = "raise"
                  /\ error = "ConnectionExhausted"
                  /\ mainpc = "dead"
        /\ call.fails < MAX_RETRIES
               => /\ call.connect = "connected"
                  /\ call.attempts = call.fails + 1
                  /\ call.sleeps = call.fails
                  /\ call.rcon = "Console"
                  /\ call.result # "raise"

\* C2 witness: a call in which all MAX_RETRIES attempts failed.
C2_Witness ==
    /\ call.connect = "raise"
    /\ call.attempts = MAX_RETRIES
    /\ call.sleeps = MAX_RETRIES - 1

\* the line holds the sentinel
HasSentinel(line) == \E i \in 1..Len(line) : line[i] = last_message

\* the readiness loop of this restart() has been left
PastReadiness == InRestart /\ pc \in {"reschedule", "notify_post", "idle"}

\* C3: the readiness loop reads line by line and stops at the first line that
\* holds the sentinel: no line before the last one read holds it, the loop
\* goes on while no line read holds it, and it is left only with the sentinel
\* in the last line read or with the stream closed; without either the
\* reschedule and "Server restarted!" never happen.
C3_ReadinessStopsAtSentinel ==
    InRestart =>
        /\ \A i \in 1..(Len(consumed) - 1) : ~HasSentinel(consumed[i])
        /\ pc = "readiness" => \A i \in 1..Len(consumed) : ~HasSentinel(consumed[i])
        /\ (PastReadiness /\ ~closed)
               => (consumed # <<>> /\ HasSentinel(consumed[Len(consumed)]))
        /\ "reschedule" \in {phases[i] : i \in 1..Len(phases)}
               => (closed \/ (consumed # <<>> /\ HasSentinel(consumed[Len(consumed)])))
        /\ "Server restarted!" \in {discord[i] : i \in 1..Len(discord)}
               => (closed \/ (consumed # <<>> /\ HasSentinel(consumed[Len(consumed)])))

\* C3 witness: unrelated lines, then a line holding the sentinel inside other
\* text, ended the readiness loop with all of them read.
C3_Witness ==
    /\ job = "restart" /\ pc = "reschedule" /\ ~closed
    /\ Len(consumed) >= 3
    /\ Len(consumed[Len(consumed)]) > 1
    /\ HasSentinel(consumed[Len(consumed)])

\* C4 as stated: a job that fails with the connection-exhaustion error leaves
\* the poll loop running.
C4_LoopSurvivesExhaustion ==
    error = "ConnectionExhausted" => mainpc # "dead"

\* C5 as stated: no failure while broadcasting in the countdown aborts
\* restart().
C5_CountdownNeverAborts ==
    ~(job = "restart" /\ pc = "countdown" /\ mainpc = "dead")

\* C5 amended: a countdown broadcast that fails because the command raised or
\* the container is not running returns nothing and the countdown goes on to
\* its next step; the one failure that aborts restart() in the countdown is
\* the connection-exhaustion error of _create_rcon_connection.
C5_CountdownBestEffort ==
    (job = "restart" /\ pc = "countdown") =>
        /\ call.result = "failed"
               => (mainpc = "jobs" /\ error = "none"
                   /\ ENABLED (CountdownStep \/ CountdownEnd))
        /\ mainpc = "dead"
               => (error = "ConnectionExhausted" /\ call.connect = "raise"
                   /\ call.running /\ call.fails >= MAX_RETRIES)

\* C5 witness: container.restart() has been called in a restart() whose
\* broadcasts failed.
C5_Witness ==
    /\ job = "restart" /\ pc = "readiness"
    /\ failed
    /\ phases = <<"countdown", "save", "notify_pre", "container_restart">>

\* C6: a call made while the container is not running makes no connection
\* attempt and no probe, leaves self.rcon as it was, logs one error in
\* _establish_rcon_connection and returns normally.
C6_NotRunningNoAttempt ==
    (call.op # "none" /\ ~call.running) =>
        /\ call.attempts = 0
        /\ call.probes = 0
        /\ call.sleeps = 0
        /\ call.connect = "none"
        /\ call.rcon = call.before
        /\ rcon = call.before
        /\ call.errors = 1
        /\ call.result # "raise"

\* C6 witness: a call with the container not running and a connection kept
\* from before.
C6_Witness ==
    /\ call.op = "broadcast" /\ ~call.running
    /\ call.before = "Console" /\ rcon = "Console"

Remaining == <<hours, minutes, seconds>>

\* lexicographic order on (hours, minutes, seconds)
RemLeq(a, b) ==
    \/ a[1] < b[1]
    \/ a[1] = b[1] /\ a[2] < b[2]
    \/ a[1] = b[1] /\ a[2] = b[2] /\ a[3] <= b[3]

\* C8: notify_restart() leaves next_start alone, and the time remaining it
\* recomputes is never more than the time remaining computed before it.
C8_NotifyFrame ==
    [][pc = "notify" => (next_start' = next_start /\ RemLeq(Remaining', Remaining))]_vars

\* C8 witness: a later notify_restart() has recomputed a smaller remainder.
C8_Witness ==
    /\ finished.job = "notify"
    /\ Remaining = <<1, 40, 0>>

\* the phases of restart(), in order
PhaseOrder ==
    <<"countdown", "save", "notify_pre", "container_restart", "readiness",
      "reschedule", "notify_post">>

\* the phases finished when restart() is at position p
PhasesBefore(p) ==
    IF p = "idle" THEN PhaseOrder
    ELSE SubSeq(PhaseOrder, 1,
                (CHOOSE i \in 1..Len(PhaseOrder) : PhaseOrder[i] = p) - 1)

\* C9: the phases of a restart() happen in the fixed order, each once and
\* each after the one before it has finished; the manager is back in the
\* Scheduled state only with all of them done, the reschedule included.
C9_PhaseOrder ==
    InRestart => phases = PhasesBefore(pc)

\* C9 witness: a restart() that went through every phase and returned.
C9_Witness ==
    /\ finished.job = "restart" /\ pc = "idle"
    /\ phases = PhaseOrder

C11_OneInstance ==
    /\ created <= 1
    /\ init_runs <= 1
    /\ Cardinality(returned) <= 1

\* the unit of n: the singular for 1, the plural for every other value
Unit(n, one, many) == IF n = 1 THEN one ELSE many

\* server_restart_in_<H><hu>_<M><mu>
ExpectedNotify(h, m) ==
    "server_restart_in_" \o ToString(h) \o Unit(h, "hr", "hrs") \o "_"
        \o ToString(m) \o Unit(m, "min", "mins")

\* notify_restart() has made its _broadcast call
Notified ==
    /\ call.op = "broadcast"
    /\ job = "notify" \/ finished.job = "notify"

\* C12: notify_restart() broadcasts one message,
\* server_restart_in_<H><hu>_<M><mu> with the recomputed hours and minutes,
\* "hr"/"min" for the value 1 and "hrs"/"mins" for every other value
C12_NotifyMessage ==
    Notified =>
        /\ bcasts = <<ExpectedNotify(hours, minutes)>>
        /\ call.arg = ExpectedNotify(hours, minutes)
        /\ hours = CalcHours(next_start, now - Slept(call))
        /\ minutes = CalcMinutes(next_start, now - Slept(call))
        /\ \A h \in 0..RESTART_TIME, m \in 0..59 :
             NotifyMessage(h, m) = ExpectedNotify(h, m)
        /\ NotifyMessage(1, 1) = "server_restart_in_1hr_1min"
        /\ NotifyMessage(0, 59) = "server_restart_in_0hrs_59mins"

\* a notification 1 h 40 min before the restart
C12_Witness ==
    /\ Notified
    /\ finished.job = "notify"
    /\ hours = 1
    /\ bcasts = <<"server_restart_in_1hr_40mins">>

\* C13: the readiness loop reacts only to lines written after
\* container.restart(): the line that ended it is never one of the lines the
\* container's log already held
C13_OldSentinelIgnored ==
    (PastReadiness /\ ~closed) => Len(consumed) > Len(backlog)

\* a _broadcast or _command call has just been made
InCall == call.op \in {"broadcast", "command"}

\* C14: _broadcast and _command catch and log every exception of
\* rcon.command, a missing connection object included, and return nothing;
\* the one error they raise is the re-raise of _create_rcon_connection after
\* its last attempt
C14_TransportErrorsCaught ==
    /\ InCall =>
         /\ call.result \in {"ok", "failed", "raise"}
         /\ call.result = "raise" <=> call.connect = "raise"
         /\ call.result = "raise" =>
              (call.attempts = MAX_RETRIES /\ call.attempts <= call.fails)
         /\ call.result = "failed" => call.cmd_errors = 1
         /\ call.result = "ok" => (call.cmd_errors = 0 /\ call.rcon = "Console")
         /\ call.rcon = "None" => call.result \in {"failed", "raise"}
         /\ error = "ConnectionExhausted" <=> call.result = "raise"
    /\ error = "ConnectionExhausted" => (InCall /\ call.connect = "raise")

\* the save command with no connection object: caught, nothing returned, and
\* restart() goes on
C14_Witness ==
    /\ call.op = "command"
    /\ call.rcon = "None"
    /\ call.result = "failed"
    /\ call.cmd_errors = 1
    /\ error = "none"
    /\ pc = "notify_pre"

\* C15: with the container running, _establish_rcon_connection makes
\* connection attempts iff self.rcon is None or the "info" probe of the
\* existing connection fails; a connection that passes the probe is kept:
\* no Console is constructed and self.rcon is left as it was
C15_ConnectOnlyWhenNeeded ==
    (InCall /\ call.running) =>
        /\ call.attempts > 0
             <=> (call.before = "None" \/ call.probe = "failed")
        /\ call.connect # "none" <=> call.attempts > 0
        /\ call.before = "None" <=> call.probe = "none"
        /\ (call.before # "None" /\ call.probe = "ok") =>
             /\ call.attempts = 0
             /\ call.probes = 1
             /\ call.sleeps = 0
             /\ call.rcon = call.before
             /\ rcon = call.before

\* a call that found its connection alive and used it
C15_Witness ==
    /\ InCall /\ call.running
    /\ call.before = "Console"
    /\ call.probe = "ok"
    /\ call.attempts = 0
    /\ call.result = "ok"

\* restart() is in its countdown with at least one broadcast made
Counting == job = "restart" /\ pc = "countdown" /\ mainpc = "jobs" /\ count < 5

\* restart() is about to call self._command("save")
BeforeSave == job = "restart" /\ pc = "save" /\ call.op = "none"

\* C16 as stated: 1 time unit from each countdown broadcast to the next, and
\* 2 time units from the NOW broadcast to the save command
C16_GraceIsTwo ==
    /\ (Counting /\ count >= 0) => now = bcast_at + 1
    /\ BeforeSave => now = bcast_at + 2

\* C16 amended: time.sleep(1) follows every broadcast, the NOW broadcast
\* included, and time.sleep(2) follows the loop: 1 time unit from each
\* broadcast to the next and 3 from the NOW broadcast to the save command
C16_GraceIsThree ==
    /\ Counting => now = bcast_at + 1
    /\ BeforeSave =>
         /\ now = bcast_at + 3
         /\ Len(bcasts) = 6
         /\ bcasts[6] = "server_restarting_NOW!"

\* the save command is about to start after a countdown in which one
\* broadcast had to wait for the connection
C16_Witness ==
    /\ BeforeSave
    /\ now = bcast_at + 3
    /\ delays > 0

\* C17: a delivery failure of log_to_discord is not surfaced: restart() is
\* never ended by it, neither at "Server restarting..." (pc = "notify_pre")
\* nor at "Server restarted!" (pc = "notify_post")
C17_SinkFailureNotSurfaced ==
    /\ error # "WebhookError"
    /\ ~(job = "restart" /\ mainpc = "dead"
           /\ pc \in {"notify_pre", "notify_post"})

\* restart() has returned to restart_job with next_start set anew
RestartReturned ==
    /\ finished.job = "restart"
    /\ job = "none"
    /\ next_start = finished.at + RestartSecs

\* C18: a restart() that has begun ends: it returns with next_start
\* rescheduled or it raises the connection-exhaustion error
C18_RestartEnds ==
    (job = "restart") ~> (RestartReturned \/ error = "ConnectionExhausted")

\* the manager exists and no job is running
Scheduled == initialized /\ job = "none" /\ mainpc # "dead"

\* C19: whenever the manager is Scheduled, and at every notify_restart()
\* call, next_start is the time at which the scheduler fires restart_job next
C19_NextStartIsNextFire ==
    /\ Scheduled => next_start = next_run["restart"]
    /\ (job = "notify" /\ pc = "notify") => next_start = next_run["restart"]

\* the sequence s holds x
Holds(s, x) == \E i \in 1..Len(s) : s[i] = x

\* the last line the readiness loop read holds the sentinel
SentinelSeen == consumed # <<>> /\ HasSentinel(consumed[Len(consumed)])

\* this restart() has set next_start anew or reported "Server restarted!"
Restarted ==
    InRestart /\ (Holds(phases, "reschedule") \/ Holds(discord, "Server restarted!"))

\* C20 as stated: the reschedule and "Server restarted!" come only after a
\* line with the sentinel has been read in this restart(); a stream that
\* closes without it does not lead to them
C20_OnlyAfterSentinel == Restarted => SentinelSeen

\* C20 amended: the reschedule and "Server restarted!" come only after the
\* readiness loop has ended, by a line with the sentinel or by the end of the
\* stream; a stream that closes without the sentinel ends the loop as well,
\* and restart() goes on to the reschedule and to "Server restarted!"
C20_AfterSentinelOrClose ==
    /\ Restarted =>
         /\ Holds(phases, "readiness")
         /\ SentinelSeen \/ closed
    /\ (job = "restart" /\ closed) =>
         /\ \A i \in 1..Len(consumed) : ~HasSentinel(consumed[i])
         /\ pc \in {"reschedule", "notify_post"}
         /\ error \in {"none", "WebhookError"}
         /\ pc = "reschedule" => ENABLED Reschedule
         /\ (pc = "notify_post" /\ error = "none") => ENABLED NotifyPost

\* the stream closed with no sentinel read, and "Server restarted!" was sent
C20_Witness ==
    /\ finished.job = "restart"
    /\ closed
    /\ ~SentinelSeen
    /\ Holds(phases, "reschedule")
    /\ Holds(discord, "Server restarted!")

====
